---- MODULE Spec2Model ----
(***************************************************************************)
(* Wallet session lifecycle of aptos-wallet-adapter: the two provider      *)
(* adapters (Petra/Aptos and Fewcha), the polling detection strategy, and  *)
(* the WalletProvider React component that manages the session.            *)
(*                                                                         *)
(* Granularity.  An async method runs synchronously up to its first await  *)
(* of a native call; each native call returning is one step; the caller's  *)
(* continuation after the adapter promise settles is one step.  A React    *)
(* state setter writes the pending state at once; Render is one step that  *)
(* commits the pending state and flushes the effects of that commit.       *)
(***************************************************************************)
EXTENDS Naturals, FiniteSets, Sequences, TLC

\* ---------------------------------------------------------------- bounds
\* Number of adapter calls (connect / disconnect) that may be in flight.
MaxCalls == 2

\* Number of calls the application makes in one run, on the WalletProvider
\* or on an adapter directly, beforeunload signals included.
MaxOps == 3

\* ------------------------------------------------------------- constants
NULL == "null"

AptosWalletName == "Petra"

FewchaWalletName == "Fewcha"

\* The registry handed to WalletProvider (wallets: adapters).
Adapters == {AptosWalletName, FewchaWalletName}

WalletReadyState == {"Installed", "NotDetected", "Loadable", "Unsupported"}

Slots == 1..MaxCalls

VARIABLES
  \* host environment
  docState,        \* document.readyState, or "none" when there is no document
  injected,        \* injected[a]: window.aptos / window.fewcha is present
  nativeSession,   \* nativeSession[a]: the native provider holds a session
  \* adapters
  _readyState, _connecting, _wallet, _provider,
  disposers,       \* the detector's timers and listeners still armed
  probes,          \* history of the probe: whether it has returned true, by
                   \* which trigger, whether it was invoked again after that,
                   \* and the readyStateChange events emitted
  calls,           \* adapter calls in flight, with what each has done so far
  \* WalletProvider
  mounted, autoConnect,
  name, state, connecting, disconnecting, wallets,
  isConnecting, isDisconnecting, isUnloading,
  rendered,        \* the values of the last commit, closed over by callbacks
  listeners,       \* adapters carrying the manager's connect/disconnect/error
  onError,         \* the error this step handed to (onError || console.error)
  out,             \* what this step showed outside: the error a WalletProvider
                   \* call threw at once, the events the adapters emitted, and
                   \* the wallet a connect(walletName) only selected
  ops              \* calls the application has made so far

envVars == <<docState, injected, nativeSession>>

adapterVars == <<_readyState, _connecting, _wallet, _provider>>

detectorVars == <<disposers, probes>>

managerVars == <<mounted, autoConnect, name, state, connecting, disconnecting,
                 wallets, isConnecting, isDisconnecting, isUnloading,
                 rendered, listeners, onError, out, ops>>

vars == <<envVars, adapterVars, detectorVars, calls, managerVars>>

\* ------------------------------------------------------- adapter getters
\* this._wallet === null.  A wallet object set by connect() has connected
\* (isConnected) true, so it never equals this value.
NoWallet == [address |-> NULL, publicKey |-> NULL, authKey |-> NULL,
             connected |-> FALSE]

\* The account of initialState: null, no object at all.
NullAccount == [publicKey |-> NULL, address |-> NULL, authKey |-> NULL,
                object |-> FALSE]

\* get publicAccount(): always an object; each field is the wallet's, or null.
PublicAccount(w) ==
  [publicKey |-> w.publicKey, address |-> w.address, authKey |-> w.authKey,
   object |-> TRUE]

\* get connected(): !!this._wallet?.isConnected (Petra), ?.connected (Fewcha).
IsConnected(w) == w.connected

Connected(a) == IsConnected(_wallet[a])

IsReady(rs) == rs = "Loadable" \/ rs = "Installed"

\* What a native connect / account call may hand back.
NativeAccounts ==
  { [publicKey |-> "pk", address |-> "addr", authKey |-> "ak"],
    [publicKey |-> "pk", address |-> "addr", authKey |-> NULL],
    [publicKey |-> NULL, address |-> "addr", authKey |-> NULL] }

\* Petra's connect() keeps address and publicKey of the response.
AptosWalletOf(response) ==
  [address |-> response.address, publicKey |-> response.publicKey,
   authKey |-> NULL, connected |-> TRUE]

\* Fewcha's connect() keeps { connected: true, ...accountDetail }.
FewchaWalletOf(accountDetail) ==
  [address |-> accountDetail.address, publicKey |-> accountDetail.publicKey,
   authKey |-> accountDetail.authKey, connected |-> TRUE]

\* --------------------------------------------------------- call records
\* A slot: the adapter and method called, who called, where the call stands,
\* the error it rejected with, whether the adapter was connected when it was
\* called, and how many native calls it has made and events of each kind it
\* has emitted.
Idle == [a |-> NULL, op |-> "idle", caller |-> NULL, pc |-> "idle",
         err |-> NULL, whenConnected |-> FALSE,
         nNative |-> 0, nConnect |-> 0, nDisconnect |-> 0, nError |-> 0]

NewCall(a, op, caller) ==
  [Idle EXCEPT !.a = a, !.op = op, !.caller = caller,
               !.whenConnected = Connected(a)]

Pending(c) == c.op # "idle" /\ c.pc \notin {"resolved", "rejected"}

Settled(c) == c.op # "idle" /\ c.pc \in {"resolved", "rejected"}

FreeSlots == {i \in Slots : calls[i].op = "idle"}

FreeSlot == CHOOSE i \in FreeSlots : \A j \in FreeSlots : i <= j

\* The call in slot i is over: later calls move down, so the slots list the
\* calls in flight in the order they were made.
WithoutCall(cs, i) ==
  [j \in Slots |-> IF j < i THEN cs[j]
                   ELSE IF j < MaxCalls THEN cs[j + 1] ELSE Idle]

\* A call made by an effect cleanup is not awaited: its promise is dropped,
\* and the call leaves the slots the moment it settles.
SettledCall(cs, i, c) ==
  IF cs[i].caller = "cleanup" THEN WithoutCall(cs, i) ELSE [cs EXCEPT ![i] = c]

\* The lowest free slot of cs takes the call c.
WithCall(cs, c) ==
  LET free == {i \in Slots : cs[i].op = "idle"}
      slot == CHOOSE i \in free : \A j \in free : i <= j
  IN  [cs EXCEPT ![slot] = c]

\* ------------------------------------------------ what a step shows
Out(thrown, emitted) == [thrown |-> thrown, emitted |-> emitted, deferred |-> NULL]

NoOut == Out(NULL, {})

\* this.emit(ev) on adapter a, when cond.
Emit(a, ev, cond) == IF cond THEN {<<a, ev>>} ELSE {}

\* ------------------------------------------ WalletProvider's handlers
\* handleConnect: copy the adapter's connected and publicAccount.
handleConnect(st, w) ==
  [st EXCEPT !.connected = IsConnected(w), !.account = PublicAccount(w)]

\* handleDisconnect: clear the selected wallet unless the window is unloading.
handleDisconnect(nm) == IF isUnloading THEN nm ELSE NULL

\* A handleError without the isUnloading test.
handleErrorAlways(error) == error

\* handleError: call onError unless the window is unloading.
handleError(error) == IF isUnloading THEN NULL ELSE error

\* handleReadyStateChange: the manager's copy of the adapter's readyState.
\* Before the first render the copy follows the adapter too: useState's
\* initialiser reads adapter.readyState when the provider first renders.
handleReadyStateChange(ws, a, rs) == [ws EXCEPT ![a] = rs]

\* emit(...): the manager's listeners run synchronously, if attached to a.
NameOnEmit(a, emitted, nm) ==
  IF emitted /\ a \in listeners THEN handleDisconnect(nm) ELSE nm

StateOnEmit(a, emitted, st, w) ==
  IF emitted /\ a \in listeners THEN handleConnect(st, w) ELSE st

ErrorOnEmit(a, emitted, error) ==
  IF emitted /\ a \in listeners THEN handleError(error) ELSE NULL

\* ------------------------------------------ scopePollingDetectionStrategy
NoDisposers == [interval |-> FALSE, dcl |-> FALSE, load |-> FALSE]

\* A detectAndDispose that releases nothing.
DisposeNone(d) == d

\* for (const dispose of disposers) dispose();
DisposeAll(d) == NoDisposers

\* The timers and listeners registered by the strategy for this document state.
Registered(ds) ==
  [interval |-> TRUE, dcl |-> (ds = "loading"), load |-> (ds # "complete")]

\* The adapter's probe: window.aptos / window.fewcha is present.
Detect(a) == injected[a]

\* detectAndDispose run by trigger `kind` for the adapters in S; a { once: true }
\* listener is gone after it ran.
DetectAndDispose(S, kind) ==
  /\ _readyState' = [a \in Adapters |->
        IF a \in S /\ Detect(a) THEN "Installed" ELSE _readyState[a]]
  /\ disposers' = [a \in Adapters |->
        IF a \notin S THEN disposers[a]
        ELSE LET d == IF kind \in {"dcl", "load"}
                      THEN [disposers[a] EXCEPT ![kind] = FALSE]
                      ELSE disposers[a]
             IN  IF Detect(a) THEN DisposeAll(d) ELSE d]
  /\ probes' = [a \in Adapters |->
        IF a \notin S THEN probes[a]
        ELSE [detected |-> probes[a].detected \/ Detect(a),
              again    |-> probes[a].again \/ probes[a].detected,
              rsc      |-> probes[a].rsc + (IF Detect(a) THEN 1 ELSE 0),
              by       |-> IF Detect(a) THEN kind ELSE probes[a].by]]
  /\ wallets' = [a \in Adapters |->
        IF a \in S /\ Detect(a)
        THEN handleReadyStateChange(wallets, a, "Installed")[a] ELSE wallets[a]]
  /\ out' = Out(NULL, {<<a, "readyStateChange">> : a \in {b \in S : Detect(b)}})

\* Strategy #1: setInterval(detectAndDispose, 1000).
IntervalTick(a) ==
  /\ disposers[a].interval
  /\ DetectAndDispose({a}, "interval")
  /\ onError' = NULL
  /\ UNCHANGED <<envVars, _connecting, _wallet, _provider, calls>>
  /\ UNCHANGED <<mounted, autoConnect, name, state, connecting, disconnecting,
                 isConnecting, isDisconnecting, isUnloading, rendered, listeners>>
  /\ UNCHANGED ops

\* Strategy #2: the document fires DOMContentLoaded.
DOMContentLoaded ==
  /\ docState = "loading"
  /\ docState' = "interactive"
  /\ DetectAndDispose({a \in Adapters : disposers[a].dcl}, "dcl")
  /\ onError' = NULL
  /\ UNCHANGED <<injected, nativeSession, _connecting, _wallet, _provider, calls>>
  /\ UNCHANGED <<mounted, autoConnect, name, state, connecting, disconnecting,
                 isConnecting, isDisconnecting, isUnloading, rendered, listeners>>
  /\ UNCHANGED ops

\* Strategy #3: the window fires load.
WindowLoad ==
  /\ docState = "interactive"
  /\ docState' = "complete"
  /\ DetectAndDispose({a \in Adapters : disposers[a].load}, "load")
  /\ onError' = NULL
  /\ UNCHANGED <<injected, nativeSession, _connecting, _wallet, _provider, calls>>
  /\ UNCHANGED <<mounted, autoConnect, name, state, connecting, disconnecting,
                 isConnecting, isDisconnecting, isUnloading, rendered, listeners>>
  /\ UNCHANGED ops

\* The extension injects its global into the page; it may hold a live session.
Inject(a) ==
  /\ ~injected[a]
  /\ injected' = [injected EXCEPT ![a] = TRUE]
  /\ \E s \in BOOLEAN : nativeSession' = [nativeSession EXCEPT ![a] = s]
  /\ onError' = NULL
  /\ out' = NoOut
  /\ UNCHANGED <<docState, adapterVars, detectorVars, calls>>
  /\ UNCHANGED <<mounted, autoConnect, name, state, connecting, disconnecting,
                 wallets, isConnecting, isDisconnecting, isUnloading, rendered,
                 listeners>>
  /\ UNCHANGED ops

\* ---------------------------------------------------- adapter constructors
\* _readyState's initializer, then the constructor: the strategy is registered
\* and probes once synchronously (strategy #4) unless the state is Unsupported.
ConstructedReadyState(a, ds, inj) ==
  IF ds = "none" THEN "Unsupported"
  ELSE IF inj[a] THEN "Installed" ELSE "NotDetected"

\* A constructor that registers the strategy whatever the readyState.
ConstructedDisposersUnguarded(a, ds, inj) ==
  IF inj[a] THEN DisposeAll(Registered(ds)) ELSE Registered(ds)

ConstructedDisposers(a, ds, inj) ==
  IF ds = "none" THEN NoDisposers
  ELSE IF inj[a] THEN DisposeAll(Registered(ds)) ELSE Registered(ds)

ConstructedProbes(a, ds, inj) ==
  [detected |-> (ds # "none" /\ inj[a]), again |-> FALSE,
   rsc |-> IF ds # "none" /\ inj[a] THEN 1 ELSE 0,
   by |-> IF ds # "none" /\ inj[a] THEN "sync" ELSE NULL]

\* Petra captures window.aptos when constructed; Fewcha has no provider yet.
ConstructedProvider(a, inj) == IF a = AptosWalletName THEN inj[a] ELSE FALSE

initialState == [adapter |-> NULL, account |-> NullAccount, connected |-> FALSE]

\* ------------------------------------------------- adapter connect()
\* A guard that looks at connecting only.
ConnectGuardConnectingOnly(a) == _connecting[a]

\* if (this.connected || this.connecting) return;
ConnectGuard(a) == Connected(a) \/ _connecting[a]

\* AptosWalletAdapter.connect up to its first await.  `finally` clears
\* _connecting on every exit, the early return included.  isConnected() is
\* asked of this._provider, the global captured by the constructor.
AptosConnectEntry(a) ==
  IF ConnectGuard(a)
  THEN [pc |-> "resolved", connecting |-> FALSE, nNative |-> 0, nError |-> 0,
        err |-> NULL]
  ELSE IF ~IsReady(_readyState[a])
  THEN [pc |-> "rejected", connecting |-> FALSE, nNative |-> 0, nError |-> 1,
        err |-> "WalletNotReadyError"]
  ELSE [pc |-> "isConnected", connecting |-> TRUE,
        nNative |-> IF _provider[a] THEN 1 ELSE 0, nError |-> 0, err |-> NULL]

\* FewchaWalletAdapter.connect up to its first await (new Web3().action).
FewchaConnectEntry(a) ==
  IF ConnectGuard(a)
  THEN [pc |-> "resolved", connecting |-> FALSE, nNative |-> 0, nError |-> 0,
        err |-> NULL]
  ELSE IF ~IsReady(_readyState[a])
  THEN [pc |-> "rejected", connecting |-> FALSE, nNative |-> 0, nError |-> 1,
        err |-> "WalletNotReadyError"]
  ELSE [pc |-> "isConnected", connecting |-> TRUE, nNative |-> 1, nError |-> 0,
        err |-> NULL]

ConnectEntry(a) ==
  IF a = AptosWalletName THEN AptosConnectEntry(a) ELSE FewchaConnectEntry(a)

ConnectCall(a, caller) ==
  LET e == ConnectEntry(a)
  IN  [NewCall(a, "connect", caller) EXCEPT
         !.pc = e.pc, !.nNative = e.nNative, !.nError = e.nError, !.err = e.err]

\* The value the awaited isConnected() yields: Petra's is undefined when the
\* constructor captured no provider; Fewcha's is isConnected?.data.
IsConnectedResult(a) ==
  IF a = AptosWalletName THEN _provider[a] /\ nativeSession[a]
  ELSE nativeSession[a]

\* catch: emit('error', error); throw error; finally: _connecting = false.
ConnectFails(i) ==
  LET c == calls[i] IN
  /\ calls' = [calls EXCEPT ![i].pc = "rejected", ![i].nError = @ + 1,
                            ![i].err = "WalletConnectionError"]
  /\ _connecting' = [_connecting EXCEPT ![c.a] = FALSE]
  /\ onError' = ErrorOnEmit(c.a, TRUE, "WalletConnectionError")
  /\ out' = Out(NULL, Emit(c.a, "error", TRUE))
  /\ UNCHANGED <<_readyState, _wallet, _provider, name, state>>

\* this._wallet = ...; emit('connect', publicKey); finally: _connecting = false.
ConnectSucceeds(i, w) ==
  LET c == calls[i] IN
  /\ calls' = [calls EXCEPT ![i].pc = "resolved", ![i].nConnect = @ + 1]
  /\ _wallet' = [_wallet EXCEPT ![c.a] = w]
  /\ _provider' = [_provider EXCEPT ![c.a] = (c.a = FewchaWalletName) \/ @]
  /\ _connecting' = [_connecting EXCEPT ![c.a] = FALSE]
  /\ state' = StateOnEmit(c.a, TRUE, state, w)
  /\ onError' = NULL
  /\ out' = Out(NULL, Emit(c.a, "connect", TRUE))
  /\ UNCHANGED <<_readyState, name>>

\* isConnected() returned: tear a live session down first, else connect.
IsConnectedReturns(i) ==
  LET c == calls[i] IN
  /\ c.op = "connect" /\ c.pc = "isConnected"
  /\ \/ /\ calls' = [calls EXCEPT
                ![i].pc = IF IsConnectedResult(c.a) THEN "staleDisconnect"
                          ELSE "nativeConnect",
                ![i].nNative = @ + 1]
        /\ onError' = NULL
        /\ out' = NoOut
        /\ UNCHANGED <<adapterVars, name, state>>
     \/ /\ c.nNative > 0          \* the native call rejects
        /\ ConnectFails(i)
  /\ UNCHANGED <<envVars, detectorVars>>
  /\ UNCHANGED <<mounted, autoConnect, connecting, disconnecting, wallets,
                 isConnecting, isDisconnecting, isUnloading, rendered, listeners>>
  /\ UNCHANGED ops

\* The disconnect() of the stale session returned.
StaleDisconnectReturns(i) ==
  LET c == calls[i] IN
  /\ c.op = "connect" /\ c.pc = "staleDisconnect"
  /\ \/ /\ calls' = [calls EXCEPT ![i].pc = "nativeConnect", ![i].nNative = @ + 1]
        /\ nativeSession' = [nativeSession EXCEPT ![c.a] = FALSE]
        /\ onError' = NULL
        /\ out' = NoOut
        /\ UNCHANGED <<adapterVars, name, state>>
     \/ /\ ConnectFails(i)
        /\ UNCHANGED nativeSession
  /\ UNCHANGED <<docState, injected, detectorVars>>
  /\ UNCHANGED <<mounted, autoConnect, connecting, disconnecting, wallets,
                 isConnecting, isDisconnecting, isUnloading, rendered, listeners>>
  /\ UNCHANGED ops

\* AptosWalletAdapter.connect: provider.connect() returned { address, publicKey }.
AptosConnectReturns(i) ==
  LET c == calls[i] IN
  /\ c.op = "connect" /\ c.pc = "nativeConnect" /\ c.a = AptosWalletName
  /\ \/ /\ ConnectSucceeds(i, AptosWalletOf([address |-> "addr", publicKey |-> "pk"]))
        /\ nativeSession' = [nativeSession EXCEPT ![c.a] = TRUE]
     \/ /\ ConnectFails(i)
        /\ UNCHANGED nativeSession
  /\ UNCHANGED <<docState, injected, detectorVars>>
  /\ UNCHANGED <<mounted, autoConnect, connecting, disconnecting, wallets,
                 isConnecting, isDisconnecting, isUnloading, rendered, listeners>>
  /\ UNCHANGED ops

\* FewchaWalletAdapter.connect: provider.connect() returned its response:
\* status 200 with data, or another status, or it threw.
FewchaConnectReturns(i) ==
  LET c == calls[i] IN
  /\ c.op = "connect" /\ c.pc = "nativeConnect" /\ c.a = FewchaWalletName
  /\ \/ \E data \in NativeAccounts :
          /\ nativeSession' = [nativeSession EXCEPT ![c.a] = TRUE]
          /\ IF data.publicKey # NULL
             THEN ConnectSucceeds(i, FewchaWalletOf(data))
             ELSE /\ calls' = [calls EXCEPT ![i].pc = "account", ![i].nNative = @ + 1]
                  /\ onError' = NULL
                  /\ out' = NoOut
                  /\ UNCHANGED <<adapterVars, name, state>>
     \/ /\ ConnectFails(i)
        /\ UNCHANGED nativeSession
  /\ UNCHANGED <<docState, injected, detectorVars>>
  /\ UNCHANGED <<mounted, autoConnect, connecting, disconnecting, wallets,
                 isConnecting, isDisconnecting, isUnloading, rendered, listeners>>
  /\ UNCHANGED ops

\* FewchaWalletAdapter.connect: provider.account() returned.
FewchaAccountReturns(i) ==
  LET c == calls[i] IN
  /\ c.op = "connect" /\ c.pc = "account"
  /\ \/ \E data \in NativeAccounts :
          IF data.publicKey # NULL
          THEN ConnectSucceeds(i, FewchaWalletOf(data))
          ELSE ConnectFails(i)
     \/ ConnectFails(i)
  /\ UNCHANGED <<envVars, detectorVars>>
  /\ UNCHANGED <<mounted, autoConnect, connecting, disconnecting, wallets,
                 isConnecting, isDisconnecting, isUnloading, rendered, listeners>>
  /\ UNCHANGED ops

\* ---------------------------------------------- adapter disconnect()
\* AptosWalletAdapter.disconnect up to its first await: a bound wallet is
\* cleared before the native call; with none, 'disconnect' is emitted at once.
AptosDisconnectEntry(a) ==
  IF _wallet[a] # NoWallet
  THEN [pc |-> "nativeDisconnect", wallet |-> NoWallet, nNative |-> 1, nDisconnect |-> 0]
  ELSE [pc |-> "resolved", wallet |-> _wallet[a], nNative |-> 0, nDisconnect |-> 1]

\* FewchaWalletAdapter.disconnect up to its first await: the native call is
\* made whenever this._provider || window.fewcha exists.
FewchaDisconnectEntry(a) ==
  IF _provider[a] \/ injected[a]
  THEN [pc |-> "nativeDisconnect", wallet |-> _wallet[a], nNative |-> 1, nDisconnect |-> 0]
  ELSE [pc |-> "resolved", wallet |-> _wallet[a], nNative |-> 0, nDisconnect |-> 1]

DisconnectEntry(a) ==
  IF a = AptosWalletName THEN AptosDisconnectEntry(a) ELSE FewchaDisconnectEntry(a)

DisconnectCall(a, caller) ==
  LET e == DisconnectEntry(a)
  IN  [NewCall(a, "disconnect", caller) EXCEPT
         !.pc = e.pc, !.nNative = e.nNative, !.nDisconnect = e.nDisconnect]

\* AptosWalletAdapter.disconnect: the native disconnect returned or threw; an
\* error is emitted as WalletDisconnectionError, and 'disconnect' either way.
AptosDisconnectReturns(i) ==
  LET c == calls[i] IN
  /\ c.op = "disconnect" /\ c.pc = "nativeDisconnect" /\ c.a = AptosWalletName
  /\ \E ok \in BOOLEAN :
       /\ nativeSession' = [nativeSession EXCEPT ![c.a] = IF ok THEN FALSE ELSE @]
       /\ calls' = SettledCall(calls, i,
                      [c EXCEPT !.pc = "resolved",
                                !.nError = IF ok THEN @ ELSE @ + 1,
                                !.nDisconnect = @ + 1])
       /\ onError' = ErrorOnEmit(c.a, ~ok, "WalletDisconnectionError")
       /\ out' = Out(NULL, Emit(c.a, "error", ~ok) \cup Emit(c.a, "disconnect", TRUE))
  /\ name' = NameOnEmit(c.a, TRUE, name)
  /\ UNCHANGED <<docState, injected, adapterVars, detectorVars, state>>
  /\ UNCHANGED <<mounted, autoConnect, connecting, disconnecting, wallets,
                 isConnecting, isDisconnecting, isUnloading, rendered, listeners>>
  /\ UNCHANGED ops

\* FewchaWalletAdapter.disconnect: isDisconnected.data === true clears the
\* provider and the wallet and emits 'disconnect'; anything else emits
\* 'error' and rethrows.
FewchaDisconnectReturns(i) ==
  LET c == calls[i] IN
  /\ c.op = "disconnect" /\ c.pc = "nativeDisconnect" /\ c.a = FewchaWalletName
  /\ \/ /\ nativeSession' = [nativeSession EXCEPT ![c.a] = FALSE]
        /\ _provider' = [_provider EXCEPT ![c.a] = FALSE]
        /\ _wallet' = [_wallet EXCEPT ![c.a] = NoWallet]
        /\ calls' = SettledCall(calls, i,
                       [c EXCEPT !.pc = "resolved", !.nDisconnect = @ + 1])
        /\ name' = NameOnEmit(c.a, TRUE, name)
        /\ onError' = NULL
        /\ out' = Out(NULL, Emit(c.a, "disconnect", TRUE))
     \/ /\ calls' = SettledCall(calls, i,
                       [c EXCEPT !.pc = "rejected", !.nError = @ + 1,
                                 !.err = "Error"])
        /\ onError' = ErrorOnEmit(c.a, TRUE, "WalletDisconnectionError")
        /\ out' = Out(NULL, Emit(c.a, "error", TRUE))
        /\ UNCHANGED <<nativeSession, _provider, _wallet, name>>
  /\ UNCHANGED <<docState, injected, _readyState, _connecting, detectorVars, state>>
  /\ UNCHANGED <<mounted, autoConnect, connecting, disconnecting, wallets,
                 isConnecting, isDisconnecting, isUnloading, rendered, listeners>>
  /\ UNCHANGED ops

\* ------------------------------------------- adapter sign operations
SignOps == {"signTransaction", "signAndSubmitTransaction", "signMessage"}

\* provider = this._provider || window.aptos (window.fewcha).
HasProvider(a) == _provider[a] \/ injected[a]

\* Fewcha builds the transaction with provider.generateTransaction first.
FirstSignStep(a, op) ==
  IF a = FewchaWalletName /\ op # "signMessage" THEN "generateTransaction"
  ELSE "nativeSign"

\* A sign operation that goes to the native provider without looking at the
\* wallet.
SignEntryUnguarded(a, op) ==
  [pc |-> FirstSignStep(a, op), err |-> NULL, nNative |-> 1, nError |-> 0]

\* A sign operation up to its first await.  Petra, and Fewcha's signMessage,
\* throw WalletNotConnectedError without a wallet or a provider; Fewcha's
\* transaction operations look at the wallet only, and calling a method of a
\* missing provider throws a TypeError.  catch emits 'error' and rethrows.
SignEntry(a, op) ==
  IF \/ _wallet[a] = NoWallet
     \/ (FirstSignStep(a, op) = "nativeSign" /\ ~HasProvider(a))
  THEN [pc |-> "rejected", err |-> "WalletNotConnectedError", nNative |-> 0, nError |-> 1]
  ELSE IF ~HasProvider(a)
  THEN [pc |-> "rejected", err |-> "TypeError", nNative |-> 0, nError |-> 1]
  ELSE [pc |-> FirstSignStep(a, op), err |-> NULL, nNative |-> 1, nError |-> 0]

SignCall(a, op, caller) ==
  LET e == SignEntry(a, op)
  IN  [NewCall(a, op, caller) EXCEPT
         !.pc = e.pc, !.err = e.err, !.nNative = e.nNative, !.nError = e.nError]

\* A sign operation is called: with SignEntry rejecting at once the caller
\* has its error in this step, else the call is in flight.
SignCalled(a, op, caller) ==
  LET e == SignEntry(a, op) IN
  /\ IF e.pc = "rejected" THEN UNCHANGED calls
     ELSE FreeSlots # {} /\ calls' = WithCall(calls, SignCall(a, op, caller))
  /\ onError' = ErrorOnEmit(a, e.nError > 0, "WalletSignError")
  /\ out' = Out(e.err, Emit(a, "error", e.nError > 0))

\* catch: emit('error', new WalletSign...Error(errMsg)); throw error.  The
\* caller has the rejection in this step, and the call is over.
SignFails(i) ==
  LET c == calls[i] IN
  /\ calls' = WithoutCall(calls, i)
  /\ onError' = ErrorOnEmit(c.a, TRUE, "WalletSignError")
  /\ out' = Out("Error", Emit(c.a, "error", TRUE))

\* FewchaWalletAdapter: generateTransaction returned a transaction, or
\* nothing, or threw.
GenerateTransactionReturns(i) ==
  LET c == calls[i] IN
  /\ c.op \in SignOps /\ c.pc = "generateTransaction"
  /\ \/ /\ calls' = [calls EXCEPT ![i].pc = "nativeSign", ![i].nNative = @ + 1]
        /\ onError' = NULL
        /\ out' = NoOut
     \/ SignFails(i)
  /\ UNCHANGED <<envVars, adapterVars, detectorVars>>
  /\ UNCHANGED <<mounted, autoConnect, name, state, connecting, disconnecting,
                 wallets, isConnecting, isDisconnecting, isUnloading, rendered,
                 listeners>>
  /\ UNCHANGED ops

\* The native sign call returned its result (the call resolves and is over),
\* or an error result, or threw.
NativeSignReturns(i) ==
  LET c == calls[i] IN
  /\ c.op \in SignOps /\ c.pc = "nativeSign"
  /\ \/ /\ calls' = WithoutCall(calls, i)
        /\ onError' = NULL
        /\ out' = NoOut
     \/ SignFails(i)
  /\ UNCHANGED <<envVars, adapterVars, detectorVars>>
  /\ UNCHANGED <<mounted, autoConnect, name, state, connecting, disconnecting,
                 wallets, isConnecting, isDisconnecting, isUnloading, rendered,
                 listeners>>
  /\ UNCHANGED ops

\* --------------------------------------- calls made on an adapter directly
\* Application code calls adapter.connect() on an adapter it constructed.
DirectConnect(a) ==
  /\ ops < MaxOps
  /\ FreeSlots # {}
  /\ calls' = WithCall(calls, ConnectCall(a, "direct"))
  /\ _connecting' = [_connecting EXCEPT ![a] = ConnectEntry(a).connecting]
  /\ onError' = ErrorOnEmit(a, ConnectEntry(a).nError > 0, "WalletNotReadyError")
  /\ out' = Out(NULL, Emit(a, "error", ConnectEntry(a).nError > 0))
  /\ UNCHANGED <<envVars, _readyState, _wallet, _provider, detectorVars>>
  /\ UNCHANGED <<mounted, autoConnect, name, state, connecting, disconnecting,
                 wallets, isConnecting, isDisconnecting, isUnloading, rendered,
                 listeners>>
  /\ ops' = ops + 1

\* Application code calls adapter.disconnect() directly.
DirectDisconnect(a) ==
  /\ ops < MaxOps
  /\ FreeSlots # {}
  /\ calls' = WithCall(calls, DisconnectCall(a, "direct"))
  /\ _wallet' = [_wallet EXCEPT ![a] = DisconnectEntry(a).wallet]
  /\ name' = NameOnEmit(a, DisconnectEntry(a).nDisconnect > 0, name)
  /\ onError' = NULL
  /\ out' = Out(NULL, Emit(a, "disconnect", DisconnectEntry(a).nDisconnect > 0))
  /\ UNCHANGED <<envVars, _readyState, _connecting, _provider, detectorVars>>
  /\ UNCHANGED <<mounted, autoConnect, state, connecting, disconnecting,
                 wallets, isConnecting, isDisconnecting, isUnloading, rendered,
                 listeners>>
  /\ ops' = ops + 1

\* Application code calls a sign operation of the adapter directly.
DirectSign(a, op) ==
  /\ ops < MaxOps
  /\ SignCalled(a, op, "direct")
  /\ UNCHANGED <<envVars, adapterVars, detectorVars>>
  /\ UNCHANGED <<mounted, autoConnect, name, state, connecting, disconnecting,
                 wallets, isConnecting, isDisconnecting, isUnloading, rendered,
                 listeners>>
  /\ ops' = ops + 1

\* The promise of a direct call settles, and the application has seen it.
DirectSettles(i) ==
  /\ Settled(calls[i]) /\ calls[i].caller = "direct"
  /\ calls' = WithoutCall(calls, i)
  /\ onError' = NULL
  /\ out' = NoOut
  /\ UNCHANGED <<envVars, adapterVars, detectorVars>>
  /\ UNCHANGED <<mounted, autoConnect, name, state, connecting, disconnecting,
                 wallets, isConnecting, isDisconnecting, isUnloading, rendered,
                 listeners>>
  /\ UNCHANGED ops

\* ------------------------------------------------------------ initial state
\* The adapters are constructed in some host environment; the provider is not
\* mounted yet and reads the persisted selection on its first render.
Init ==
  /\ docState \in {"none", "loading", "interactive", "complete"}
  /\ injected \in [Adapters -> BOOLEAN]
  /\ nativeSession \in [Adapters -> BOOLEAN]
  /\ \A a \in Adapters : nativeSession[a] => injected[a]
  /\ docState = "none" => \A a \in Adapters : ~injected[a]
  /\ _readyState = [a \in Adapters |-> ConstructedReadyState(a, docState, injected)]
  /\ disposers = [a \in Adapters |-> ConstructedDisposers(a, docState, injected)]
  /\ probes = [a \in Adapters |-> ConstructedProbes(a, docState, injected)]
  /\ _provider = [a \in Adapters |-> ConstructedProvider(a, injected)]
  /\ _connecting = [a \in Adapters |-> FALSE]
  /\ _wallet = [a \in Adapters |-> NoWallet]
  /\ calls = [i \in Slots |-> Idle]
  /\ mounted = FALSE
  /\ autoConnect \in BOOLEAN
  /\ name \in Adapters \cup {NULL}
  /\ state = initialState
  /\ connecting = FALSE /\ disconnecting = FALSE
  /\ isConnecting = FALSE /\ isDisconnecting = FALSE /\ isUnloading = FALSE
  /\ wallets = _readyState
  /\ rendered = [name |-> name, adapter |-> NULL, connected |-> FALSE,
                 readyState |-> "Unsupported", wallets |-> _readyState]
  /\ listeners = {}
  /\ onError = NULL
  /\ out = NoOut
  /\ ops = 0

\* The adapters used on their own, without a WalletProvider.  Adapters share
\* no state, so each is exercised in the pages where its extension is the one
\* that is, or gets, installed.
OnlyExtension(a) == \A b \in Adapters \ {a} : ~injected[b]

InitAdapter ==
  /\ Init /\ name = NULL /\ ~autoConnect
  /\ \E a \in Adapters : OnlyExtension(a)

NextAdapter ==
  \/ \E a \in Adapters : DirectConnect(a) \/ DirectDisconnect(a)
  \/ \E a \in Adapters : \E op \in SignOps : DirectSign(a, op)
  \/ \E i \in Slots :
       \/ IsConnectedReturns(i) \/ StaleDisconnectReturns(i)
       \/ AptosConnectReturns(i) \/ FewchaConnectReturns(i) \/ FewchaAccountReturns(i)
       \/ AptosDisconnectReturns(i) \/ FewchaDisconnectReturns(i)
       \/ GenerateTransactionReturns(i) \/ NativeSignReturns(i)
       \/ DirectSettles(i)
  \/ \E a \in Adapters : IntervalTick(a) \/ (OnlyExtension(a) /\ Inject(a))
  \/ DOMContentLoaded \/ WindowLoad

SpecAdapter == InitAdapter /\ [][NextAdapter]_vars

\* ------------------------------------------------------- WalletProvider
\* What the next render reads of the pending state, and the active adapter's
\* readyState (adapter?.readyState || Unsupported): the values the callbacks
\* close over and the effects depend on.
NextRender ==
  [name |-> name, adapter |-> state.adapter, connected |-> state.connected,
   readyState |-> IF state.adapter = NULL THEN "Unsupported"
                  ELSE _readyState[state.adapter],
   wallets |-> wallets]

\* The selected-wallet effect: the state of the wallet named nm, read from
\* the adapter (wallet w), or initialState.
SelectedState(nm, w) ==
  IF nm \in Adapters
  THEN [adapter |-> nm, account |-> PublicAccount(w[nm]),
        connected |-> IsConnected(w[nm])]
  ELSE initialState

\* The autoConnect effect's guard, over the render n.
AutoConnectGuard(n) ==
  \/ isConnecting \/ n.connected \/ ~autoConnect \/ n.adapter = NULL
  \/ ~IsReady(n.readyState)

\* A commit and its effects: the cleanups of the effects whose dependencies
\* changed (listeners off, old adapter.disconnect()), then the effects
\* (selected wallet, listeners on, autoConnect).  The first one mounts.
Render ==
  LET n == NextRender
      r == rendered
      adapterChanged == mounted /\ n.adapter # r.adapter
      cleanup == adapterChanged /\ r.adapter # NULL
      dEntry == DisconnectEntry(r.adapter)
      wallet1 == IF cleanup THEN [_wallet EXCEPT ![r.adapter] = dEntry.wallet]
                 ELSE _wallet
      calls1 == IF cleanup /\ dEntry.pc # "resolved"
                THEN WithCall(calls, DisconnectCall(r.adapter, "cleanup"))
                ELSE calls
      selectRuns == ~mounted \/ n.name # r.name \/ n.wallets # r.wallets
      autoRuns == \/ ~mounted \/ n.connected # r.connected
                  \/ n.adapter # r.adapter \/ n.readyState # r.readyState
      auto == autoRuns /\ ~AutoConnectGuard(n)
      listeners1 == IF adapterChanged
                    THEN (listeners \ {r.adapter}) \cup ({n.adapter} \ {NULL})
                    ELSE listeners
      emitted1 == IF cleanup
                  THEN Emit(r.adapter, "disconnect", dEntry.nDisconnect > 0)
                  ELSE {}
  IN
  /\ ~mounted \/ n # r
  /\ Cardinality(FreeSlots) >=
       (IF cleanup /\ dEntry.pc # "resolved" THEN 1 ELSE 0) + (IF auto THEN 1 ELSE 0)
  /\ mounted' = TRUE
  /\ rendered' = n
  /\ listeners' = listeners1
  /\ _wallet' = wallet1
  /\ state' = IF selectRuns THEN SelectedState(n.name, wallet1) ELSE state
  /\ IF auto
     THEN /\ isConnecting' = TRUE
          /\ connecting' = TRUE
          /\ calls' = WithCall(calls1, ConnectCall(n.adapter, "autoConnect"))
          /\ _connecting' = [_connecting EXCEPT
                               ![n.adapter] = ConnectEntry(n.adapter).connecting]
          /\ onError' = IF ConnectEntry(n.adapter).nError > 0 /\ n.adapter \in listeners1
                        THEN handleError("WalletNotReadyError") ELSE NULL
          /\ out' = Out(NULL, emitted1 \cup
                          Emit(n.adapter, "error", ConnectEntry(n.adapter).nError > 0))
     ELSE /\ calls' = calls1
          /\ onError' = NULL
          /\ out' = Out(NULL, emitted1)
          /\ UNCHANGED <<isConnecting, connecting, _connecting>>
  /\ UNCHANGED <<envVars, _readyState, _provider, detectorVars>>
  /\ UNCHANGED <<autoConnect, name, disconnecting, wallets, isDisconnecting,
                 isUnloading>>
  /\ UNCHANGED ops

\* select: setName.
Select(walletName) ==
  /\ mounted /\ ops < MaxOps
  /\ ops' = ops + 1
  /\ name' = walletName
  /\ onError' = NULL
  /\ out' = NoOut
  /\ UNCHANGED <<envVars, adapterVars, detectorVars, calls>>
  /\ UNCHANGED <<mounted, autoConnect, state, connecting, disconnecting, wallets,
                 isConnecting, isDisconnecting, isUnloading, rendered, listeners>>

\* connect(walletName), called on the callback of the last render.
Connect(walletName) ==
  LET r == rendered IN
  /\ mounted /\ ops < MaxOps
  /\ ops' = ops + 1
  /\ IF isConnecting \/ isDisconnecting \/ r.connected
     THEN /\ onError' = NULL
          /\ out' = NoOut
          /\ UNCHANGED <<name, isConnecting, connecting, calls, _connecting>>
     ELSE IF r.name = NULL
     THEN /\ name' = walletName
          /\ onError' = NULL
          /\ out' = [NoOut EXCEPT !.deferred = walletName]
          /\ UNCHANGED <<isConnecting, connecting, calls, _connecting>>
     ELSE IF r.adapter = NULL
     THEN /\ onError' = handleError("WalletNotSelectedError")
          /\ out' = Out("WalletNotSelectedError", {})
          /\ UNCHANGED <<name, isConnecting, connecting, calls, _connecting>>
     ELSE IF ~IsReady(r.readyState)
     THEN /\ name' = NULL
          /\ onError' = handleError("WalletNotReadyError")
          /\ out' = Out("WalletNotReadyError", {})
          /\ UNCHANGED <<isConnecting, connecting, calls, _connecting>>
     ELSE /\ FreeSlots # {}
          /\ isConnecting' = TRUE
          /\ connecting' = TRUE
          /\ calls' = WithCall(calls, ConnectCall(r.adapter, "connect"))
          /\ _connecting' = [_connecting EXCEPT
                               ![r.adapter] = ConnectEntry(r.adapter).connecting]
          /\ onError' = ErrorOnEmit(r.adapter, ConnectEntry(r.adapter).nError > 0,
                                    "WalletNotReadyError")
          /\ out' = Out(NULL, Emit(r.adapter, "error", ConnectEntry(r.adapter).nError > 0))
          /\ UNCHANGED name
  /\ UNCHANGED <<envVars, _readyState, _wallet, _provider, detectorVars>>
  /\ UNCHANGED <<mounted, autoConnect, state, disconnecting, wallets,
                 isDisconnecting, isUnloading, rendered, listeners>>

\* disconnect(), called on the callback of the last render.
Disconnect ==
  LET r == rendered IN
  /\ mounted /\ ops < MaxOps
  /\ ops' = ops + 1
  /\ IF isDisconnecting
     THEN /\ out' = NoOut
          /\ UNCHANGED <<name, isDisconnecting, disconnecting, calls, _wallet>>
     ELSE IF r.adapter = NULL
     THEN /\ name' = NULL
          /\ out' = NoOut
          /\ UNCHANGED <<isDisconnecting, disconnecting, calls, _wallet>>
     ELSE /\ FreeSlots # {}
          /\ isDisconnecting' = TRUE
          /\ disconnecting' = TRUE
          /\ calls' = WithCall(calls, DisconnectCall(r.adapter, "disconnect"))
          /\ _wallet' = [_wallet EXCEPT ![r.adapter] = DisconnectEntry(r.adapter).wallet]
          /\ name' = NameOnEmit(r.adapter, DisconnectEntry(r.adapter).nDisconnect > 0, name)
          /\ out' = Out(NULL, Emit(r.adapter, "disconnect",
                                   DisconnectEntry(r.adapter).nDisconnect > 0))
  /\ onError' = NULL
  /\ UNCHANGED <<envVars, _readyState, _connecting, _provider, detectorVars>>
  /\ UNCHANGED <<mounted, autoConnect, state, connecting, wallets, isConnecting,
                 isUnloading, rendered, listeners>>

\* signTransaction / signAndSubmitTransaction / signMessage, called on the
\* callback of the last render: delegation behind two checks.
Sign(op) ==
  LET r == rendered IN
  /\ mounted /\ ops < MaxOps
  /\ ops' = ops + 1
  /\ IF r.adapter = NULL
     THEN /\ onError' = handleError("WalletNotSelectedError")
          /\ out' = Out("WalletNotSelectedError", {})
          /\ UNCHANGED calls
     ELSE IF ~r.connected
     THEN /\ onError' = handleError("WalletNotConnectedError")
          /\ out' = Out("WalletNotConnectedError", {})
          /\ UNCHANGED calls
     ELSE SignCalled(r.adapter, op, "sign")
  /\ UNCHANGED <<envVars, adapterVars, detectorVars>>
  /\ UNCHANGED <<mounted, autoConnect, name, state, connecting, disconnecting,
                 wallets, isConnecting, isDisconnecting, isUnloading, rendered,
                 listeners>>

\* The adapter promise awaited by connect() or by the autoConnect effect
\* settles: catch clears the selection, finally clears the flags.
ConnectSettles(i) ==
  /\ Settled(calls[i]) /\ calls[i].caller \in {"connect", "autoConnect"}
  /\ name' = IF calls[i].pc = "rejected" THEN NULL ELSE name
  /\ connecting' = FALSE
  /\ isConnecting' = FALSE
  /\ calls' = WithoutCall(calls, i)
  /\ onError' = NULL
  /\ out' = NoOut
  /\ UNCHANGED <<envVars, adapterVars, detectorVars>>
  /\ UNCHANGED <<mounted, autoConnect, state, disconnecting, wallets,
                 isDisconnecting, isUnloading, rendered, listeners>>
  /\ UNCHANGED ops

\* The adapter promise awaited by disconnect() settles.
DisconnectSettles(i) ==
  /\ Settled(calls[i]) /\ calls[i].caller = "disconnect"
  /\ name' = IF calls[i].pc = "rejected" THEN NULL ELSE name
  /\ disconnecting' = FALSE
  /\ isDisconnecting' = FALSE
  /\ calls' = WithoutCall(calls, i)
  /\ onError' = NULL
  /\ out' = NoOut
  /\ UNCHANGED <<envVars, adapterVars, detectorVars>>
  /\ UNCHANGED <<mounted, autoConnect, state, connecting, wallets,
                 isConnecting, isUnloading, rendered, listeners>>
  /\ UNCHANGED ops

\* The window's beforeunload listener.
BeforeUnload ==
  /\ mounted /\ ~isUnloading /\ ops < MaxOps
  /\ ops' = ops + 1
  /\ isUnloading' = TRUE
  /\ onError' = NULL
  /\ out' = NoOut
  /\ UNCHANGED <<envVars, adapterVars, detectorVars, calls>>
  /\ UNCHANGED <<mounted, autoConnect, name, state, connecting, disconnecting,
                 wallets, isConnecting, isDisconnecting, rendered, listeners>>

\* The application drives the adapters through the WalletProvider only.
Next ==
  \/ Render
  \/ \E walletName \in Adapters \cup {NULL} : Select(walletName)
  \/ \E walletName \in Adapters : Connect(walletName)
  \/ Disconnect
  \/ \E op \in SignOps : Sign(op)
  \/ BeforeUnload
  \/ \E i \in Slots :
       \/ IsConnectedReturns(i) \/ StaleDisconnectReturns(i)
       \/ AptosConnectReturns(i) \/ FewchaConnectReturns(i) \/ FewchaAccountReturns(i)
       \/ AptosDisconnectReturns(i) \/ FewchaDisconnectReturns(i)
       \/ GenerateTransactionReturns(i) \/ NativeSignReturns(i)
       \/ ConnectSettles(i) \/ DisconnectSettles(i)

\* The WalletProvider in a page that was fully loaded, with its extensions
\* injected or absent for good, when the adapters were constructed (or in a
\* host without a document): the detection strategy has nothing left to find.
InitProvider == Init /\ docState \in {"none", "complete"}

Spec == InitProvider /\ [][Next]_vars

\* ================================================================ claims
\* Steps, as seen from outside: a new call on adapter a enters the slots.
ConnectCalled(a, i) ==
  calls[i].op = "idle" /\ calls'[i].op = "connect" /\ calls'[i].a = a

\* The call in slot i settles in this step (it made at least one native call).
CallSettles(i, op) ==
  calls[i].op = op /\ Pending(calls[i]) /\ calls'[i].op = op /\ Settled(calls'[i])

AllKeys(acct) ==
  acct.publicKey # NULL /\ acct.address # NULL /\ acct.authKey # NULL

NoKeys(acct) ==
  acct.publicKey = NULL /\ acct.address = NULL /\ acct.authKey = NULL

\* No adapter call is in flight and the last commit shows the pending state.
Quiescent == (\A i \in Slots : calls[i].op = "idle") /\ mounted /\ NextRender = rendered

\* C1: the manager's connecting and disconnecting flags (the refs and the
\* states they mirror) are never both true.
C1_SingleFlight ==
  ~(isConnecting /\ isDisconnecting) /\ ~(connecting /\ disconnecting)

\* C2: connected is true iff there is an active adapter and that adapter is
\* connected, and the account is non-null iff connected is true.
C2_PublishedState ==
  /\ state.connected <=> (state.adapter # NULL /\ Connected(state.adapter))
  /\ state.account.object <=> state.connected

\* C3: when a connect() that performed the handshake resolves, the adapter
\* is connected and publicKey, address and authKey are all non-null.
C3_ConnectPopulatesAccount ==
  [][\A i \in Slots :
       (CallSettles(i, "connect") /\ calls'[i].pc = "resolved")
         => /\ IsConnected(_wallet'[calls[i].a])
            /\ AllKeys(PublicAccount(_wallet'[calls[i].a]))]_vars

\* C4: when a disconnect() call settles, whatever the native disconnect did,
\* the adapter is not connected and its three account keys are null.
C4_DisconnectClearsAccount ==
  [][\A i \in Slots :
       CallSettles(i, "disconnect")
         => /\ ~IsConnected(_wallet'[calls[i].a])
            /\ NoKeys(PublicAccount(_wallet'[calls[i].a]))]_vars

\* C5: a disconnect() call that has settled has emitted exactly one
\* `disconnect` event.
C5_OneDisconnectEvent ==
  \A i \in Slots :
    (calls[i].op = "disconnect" /\ Settled(calls[i])) => calls[i].nDisconnect = 1

\* C6: when a commit replaces a connected active adapter A, then once its
\* effects have run A is no longer connected and carries no manager listener.
C6_ReplacementOrder ==
  [][(/\ mounted /\ rendered.adapter # NULL
      /\ rendered'.adapter # rendered.adapter
      /\ Connected(rendered.adapter))
        => /\ ~IsConnected(_wallet'[rendered.adapter])
           /\ rendered.adapter \notin listeners']_vars

\* C7: in a quiescent state no adapter other than the active one is connected.
C7_NoDanglingSession ==
  Quiescent => \A a \in Adapters : Connected(a) => a = state.adapter

\* C8: a connect() made while an earlier connect() on the same adapter is
\* still pending starts no native call and changes no adapter state.
C8_ConcurrentConnectNoOp ==
  [][\A a \in Adapters : \A i \in Slots :
       (/\ ConnectCalled(a, i)
        /\ \E j \in Slots : calls[j].op = "connect" /\ calls[j].a = a
                            /\ Pending(calls[j]))
         => /\ calls'[i].nNative = 0
            /\ _connecting'[a] = _connecting[a]
            /\ _wallet'[a] = _wallet[a]
            /\ _provider'[a] = _provider[a]]_vars

\* C9: a connect() made while the adapter is connected returns at once: no
\* native call, no `connect` event, connected and publicAccount unchanged.
C9_ConnectIdempotent ==
  [][\A a \in Adapters : \A i \in Slots :
       (ConnectCalled(a, i) /\ Connected(a))
         => /\ calls'[i].pc = "resolved"
            /\ calls'[i].nNative = 0 /\ calls'[i].nConnect = 0
            /\ calls'[i].nError = 0
            /\ _wallet'[a] = _wallet[a]
            /\ PublicAccount(_wallet'[a]) = PublicAccount(_wallet[a])]_vars

\* A connect() was called on a connected adapter and has returned.
C9_Witness ==
  \E i \in Slots :
    calls[i].op = "connect" /\ calls[i].whenConnected /\ Settled(calls[i])

\* C10: once an adapter's probe has returned true it is never invoked again,
\* every timer and listener of the strategy is released, and exactly one
\* readyStateChange has been emitted, for NotDetected -> Installed.
C10_DetectorLatch ==
  \A a \in Adapters :
    /\ ~probes[a].again
    /\ probes[a].rsc = (IF probes[a].detected THEN 1 ELSE 0)
    /\ probes[a].detected => (disposers[a] = NoDisposers /\ _readyState[a] = "Installed")

\* The probe of some adapter returned true on a timer or listener trigger,
\* after the synchronous probe had returned false.
C10_Witness ==
  \E a \in Adapters : probes[a].detected /\ probes[a].by \in {"interval", "dcl", "load"}

\* C11: a sign operation called on the WalletProvider with no active adapter
\* rejects with WalletNotSelectedError; called with an active adapter while
\* the published session or the adapter itself is not connected it rejects
\* with WalletNotConnectedError; in both cases no native call is started.
C11_SignWithoutSession ==
  [][\A op \in SignOps :
       Sign(op) =>
         /\ rendered.adapter = NULL
              => (out'.thrown = "WalletNotSelectedError" /\ calls' = calls)
         /\ (rendered.adapter # NULL
              /\ (~rendered.connected \/ ~Connected(rendered.adapter)))
              => (out'.thrown = "WalletNotConnectedError" /\ calls' = calls)]_vars

\* A sign operation passed the WalletProvider's two checks and was rejected
\* by the adapter, which had no session.
C11_Witness ==
  /\ out.thrown = "WalletNotConnectedError"
  /\ rendered.adapter # NULL /\ rendered.connected

\* C12: whenever a connect attempt of the WalletProvider fails (connect()
\* throwing WalletNotSelectedError or WalletNotReadyError, or the adapter's
\* connect() rejecting under connect() or under the autoConnect effect), the
\* selected wallet name is null afterwards.
C12_FailedConnectClearsSelection ==
  [][/\ \A walletName \in Adapters :
          (Connect(walletName) /\ out'.thrown # NULL) => name' = NULL
     /\ \A i \in Slots :
          (ConnectSettles(i) /\ calls[i].pc = "rejected") => name' = NULL]_vars

\* C13: once the adapter call made by the WalletProvider's disconnect() has
\* settled, the selected wallet name is null: at the step in which the call
\* resolves, and at the continuation of disconnect() when it rejected.
C13_DisconnectClearsSelection ==
  [][\A i \in Slots :
       /\ (/\ calls'[i].caller = "disconnect" /\ calls'[i].pc = "resolved"
           /\ calls[i] # calls'[i]
           /\ calls[i].op = "idle" \/ CallSettles(i, "disconnect"))
            => name' = NULL
       /\ (DisconnectSettles(i) /\ calls[i].pc = "rejected") => name' = NULL]_vars

\* ------------------------------------------------------------- progress
\* React commits a pending state, a native call returns, and the code after
\* an await runs once its promise has settled.  The application owes nothing.
Fairness ==
  /\ WF_vars(Render)
  /\ \A i \in Slots :
       /\ WF_vars(IsConnectedReturns(i) \/ StaleDisconnectReturns(i))
       /\ WF_vars(AptosConnectReturns(i) \/ FewchaConnectReturns(i)
                    \/ FewchaAccountReturns(i))
       /\ WF_vars(AptosDisconnectReturns(i) \/ FewchaDisconnectReturns(i))
       /\ WF_vars(GenerateTransactionReturns(i) \/ NativeSignReturns(i))
       /\ WF_vars(ConnectSettles(i) \/ DisconnectSettles(i))

SpecLive == InitProvider /\ [][Next]_vars /\ Fairness

\* C14: after a connect(walletName) that found no wallet selected and only
\* selected the wallet, with that adapter Installed or Loadable, the
\* WalletProvider eventually calls the adapter's connect(), unless the
\* application has selected something else in the meantime.
C14_DeferredConnect ==
  \A a \in Adapters :
    (out.deferred = a /\ IsReady(_readyState[a]))
      ~> (\/ \E i \in Slots : calls[i].op = "connect" /\ calls[i].a = a
          \/ name # a)

\* C15: the autoConnect effect has at most one adapter connect() in flight;
\* when that attempt fails, the application's error handler is not invoked,
\* and the selection is cleared, so that no further attempt follows.
C15_AutoConnectSilentOnce ==
  [][/\ Cardinality({i \in Slots : calls'[i].caller = "autoConnect"}) <= 1
     /\ \A i \in Slots :
          /\ (/\ calls[i].caller = "autoConnect" /\ Pending(calls[i])
              /\ calls'[i].caller = "autoConnect" /\ calls'[i].pc = "rejected")
               => onError' = NULL
          /\ (/\ ConnectSettles(i) /\ calls[i].caller = "autoConnect"
              /\ calls[i].pc = "rejected")
               => name' = NULL]_vars

\* C16: the unloading flag, once set, is never cleared, and no step taken
\* while it is set calls the application's error handler (onError or
\* console.error), whether the error is an adapter's 'error' event or one
\* the manager raises itself.
C16_ShutdownGuardSuppression ==
  [][isUnloading => (isUnloading' /\ onError' = NULL)]_vars

\* The window is unloading and the adapter the manager listens to has just
\* emitted 'error'; the handler was not called.
C16_Witness ==
  /\ isUnloading
  /\ onError = NULL
  /\ \E a \in listeners : <<a, "error">> \in out.emitted

\* C17: when the adapter of a connected session, to which the manager
\* listens, emits 'disconnect' while the window is unloading, the manager's
\* session state is still reset: the
\* published connected becomes false and the published account null.
C17_ShutdownGuardResetsState ==
  (/\ isUnloading /\ rendered.connected
   /\ \E a \in listeners : <<a, "disconnect">> \in out.emitted)
    ~> (/\ ~rendered.connected
        /\ ~state.connected /\ state.account = NullAccount)

\* C18: where readyState is Unsupported, a connect attempt on the selected
\* adapter rejects with WalletNotReadyError and clears the selection without
\* calling the adapter, and when this is the first thing the application
\* does, no adapter emits an event other than 'error' in consequence (until
\* the application's next call).
C18_UnsupportedConnect ==
  /\ [][\A walletName \in Adapters :
          (/\ Connect(walletName)
           /\ docState = "none"
           /\ rendered.name # NULL /\ rendered.adapter # NULL
           /\ ~(isConnecting \/ isDisconnecting \/ rendered.connected))
            => (/\ out'.thrown = "WalletNotReadyError"
                /\ name' = NULL
                /\ calls' = calls)]_vars
  /\ []((docState = "none" /\ out.thrown = "WalletNotReadyError" /\ ops = 1)
          => [](ops = 1 => \A ev \in out.emitted : ev[2] = "error"))

\* C19: for every adapter and every operation, a failure is delivered twice:
\* the adapter emits 'error' and the promise returned to the caller rejects,
\* and neither happens without the other. For connect and disconnect the
\* call's record counts its 'error' events; a sign operation's rejection and
\* its event are those of the step that ends it.
C19_DualDelivery ==
  [][/\ \A i \in Slots :
          calls'[i].op \in {"connect", "disconnect"}
            => (calls'[i].pc = "rejected" <=> calls'[i].nError > 0)
     /\ (\/ \E a \in Adapters : \E op \in SignOps : DirectSign(a, op)
         \/ \E i \in Slots : GenerateTransactionReturns(i) \/ NativeSignReturns(i))
          => (out'.thrown # NULL <=> \E ev \in out'.emitted : ev[2] = "error")]_vars

\* C20: for every adapter, a connect() that fails (readyState neither
\* Installed nor Loadable, or the native provider rejecting or answering with
\* an error status) emits one 'error' event and no 'connect' event, rejects,
\* and leaves the adapter with connected false, publicAccount all-null and
\* connecting false.
C20_FailedConnectNoSession ==
  [][\A a \in Adapters : \A i \in Slots :
       (/\ ConnectCalled(a, i) \/ (CallSettles(i, "connect") /\ calls[i].a = a)
        /\ calls'[i].pc = "rejected")
         => /\ calls'[i].nError = 1 /\ calls'[i].nConnect = 0
            /\ <<a, "error">> \in out'.emitted
            /\ <<a, "connect">> \notin out'.emitted
            /\ ~IsConnected(_wallet'[a])
            /\ PublicAccount(_wallet'[a]) = PublicAccount(NoWallet)
            /\ ~_connecting'[a]]_vars

\* C21: for every adapter, a disconnect() called while no account is bound
\* makes no call to the native provider, changes nothing in the adapter and
\* emits exactly one 'disconnect' event (within the call, which resolves).
C21_DisconnectUnboundNoOp ==
  [][\A a \in Adapters : \A i \in Slots :
       (/\ calls[i].op = "idle"
        /\ calls'[i].op = "disconnect" /\ calls'[i].a = a
        /\ _wallet[a] = NoWallet)
         => /\ calls'[i].nNative = 0
            /\ calls'[i].pc = "resolved"
            /\ calls'[i].nDisconnect = 1 /\ calls'[i].nError = 0
            /\ <<a, "disconnect">> \in out'.emitted
            /\ _wallet'[a] = _wallet[a] /\ _provider'[a] = _provider[a]
            /\ _connecting'[a] = _connecting[a]
            /\ _readyState'[a] = _readyState[a]]_vars

\* C22: while a connect() that passed its guards has not settled, the
\* adapter's connecting stays true, whatever other connect() calls are made
\* on the adapter meanwhile; so any connect() called while one is pending
\* returns without making a native call.
C22_ConnectingCoversFlight ==
  [][/\ \A i \in Slots :
          (calls'[i].op = "connect" /\ Pending(calls'[i]))
            => _connecting'[calls'[i].a]
     /\ \A a \in Adapters : \A i \in Slots :
          (/\ ConnectCalled(a, i)
           /\ \E j \in Slots : /\ calls[j].op = "connect" /\ calls[j].a = a
                               /\ Pending(calls[j]))
            => (calls'[i].pc = "resolved" /\ calls'[i].nNative = 0)]_vars

\* C23: for every adapter, when the native provider holds a live session at
\* the time connect() asks about it, also when the native global was
\* injected after the adapter was constructed, the adapter calls the native
\* disconnect and waits for it before it calls the native connect.
C23_StaleSessionTeardown ==
  [][\A i \in Slots :
       (/\ IsConnectedReturns(i)
        /\ nativeSession[calls[i].a]
        /\ calls'[i].pc # "rejected")
         => calls'[i].pc = "staleDisconnect"]_vars

\* C24: state before event.  In the step in which an adapter emits 'connect'
\* its connected is true and publicAccount.publicKey is non-null; in the
\* step in which it emits 'disconnect' its connected is false; in the step
\* in which it emits 'readyStateChange' its readyState is the emitted value,
\* Installed.
C24_StateBeforeEvent ==
  [][\A a \in Adapters :
       /\ <<a, "connect">> \in out'.emitted
            => /\ IsConnected(_wallet'[a])
               /\ PublicAccount(_wallet'[a]).publicKey # NULL
       /\ <<a, "disconnect">> \in out'.emitted => ~IsConnected(_wallet'[a])
       /\ <<a, "readyStateChange">> \in out'.emitted
            => _readyState'[a] = "Installed"]_vars

\* C25: readiness is monotonic.  For every adapter an Unsupported readyState
\* never changes, an Installed readyState never changes, and the only change
\* ever made is NotDetected to Installed, made by a probe of the detector
\* that found the global and emitted 'readyStateChange' - never by a
\* connect, disconnect or sign operation.
C25_ReadinessMonotonic ==
  [][\A a \in Adapters :
       /\ _readyState[a] = "Unsupported" => _readyState'[a] = "Unsupported"
       /\ _readyState[a] = "Installed" => _readyState'[a] = "Installed"
       /\ _readyState'[a] # _readyState[a]
            => /\ _readyState[a] = "NotDetected" /\ _readyState'[a] = "Installed"
               /\ IntervalTick(a) \/ DOMContentLoaded \/ WindowLoad
               /\ Detect(a)
               /\ <<a, "readyStateChange">> \in out'.emitted
               /\ calls' = calls]_vars

\* An adapter the detector turned Installed after construction has since
\* settled an operation, and is still Installed.
C25_Witness ==
  \E a \in Adapters :
    /\ _readyState[a] = "Installed"
    /\ probes[a].by \in {"interval", "dcl", "load"}
    /\ \E i \in Slots : calls[i].a = a /\ Settled(calls[i])

\* C26: a call connect(walletName) on the manager invokes connect() on no
\* adapter other than the one named walletName, also when another provider
\* is selected at the time of the call.
C26_ConnectNamedProvider ==
  [][\A walletName \in Adapters :
       Connect(walletName)
         => \A a \in Adapters : \A i \in Slots :
              ConnectCalled(a, i) => a = walletName]_vars

\* C27: autoConnect is never lost.  With autoConnect enabled, a quiescent
\* state (no connect or disconnect in flight, the window not unloading) in
\* which provider a is selected, its adapter is Installed or Loadable and no
\* session is connected, is followed by a connect attempt on a - unless the
\* selection is changed or the window starts unloading first.
C27_AutoConnectNeverLost ==
  \A a \in Adapters :
    (/\ autoConnect /\ ~isUnloading
     /\ ~isConnecting /\ ~isDisconnecting
     /\ \A i \in Slots : calls[i].op = "idle"
     /\ name = a /\ IsReady(_readyState[a])
     /\ ~Connected(a) /\ ~state.connected)
      ~> (\/ \E i \in Slots : calls[i].op = "connect" /\ calls[i].a = a
          \/ name # a
          \/ isUnloading)

\* C28: one native disconnect per session teardown.  The manager's
\* disconnect() on a connected adapter makes one native disconnect call, and
\* the adapter-replacement cleanup that runs afterwards, on the adapter of a
\* published session that is already disconnected, starts no call that
\* reaches the native provider (so nothing that can fail).
C28_OneNativeDisconnect ==
  [][/\ \A i \in Slots :
          (/\ calls[i].op = "idle" /\ calls'[i].caller = "disconnect"
           /\ calls'[i].whenConnected)
            => calls'[i].nNative = 1
     /\ (/\ Render
         /\ rendered.adapter # NULL /\ rendered.connected
         /\ ~Connected(rendered.adapter))
          => \A i \in Slots :
               calls'[i].caller = "cleanup"
                 => \E j \in Slots : calls[j] = calls'[i]]_vars

====
